---- MODULE Spec2Model ----
(***************************************************************************)
(* Model of tools/ai/build_scanner_training_dataset.py: the reconstruction *)
(* of scanner attempts from log lines (parse_lines), the classification of *)
(* error texts (classify_error) and the report (build_summary, main).      *)
(*                                                                         *)
(* A text is a sequence of one-character strings.  A log line is a record  *)
(* of the parts LINE_RE looks at; its message is a sequence of             *)
(* comma-separated fields [k |-> key, v |-> value], rendered to text by    *)
(* MsgText.                                                                *)
(***************************************************************************)
EXTENDS Integers, Sequences, FiniteSets, TLC

VARIABLES
  lines,      \* the input lines consumed so far by the loop of parse_lines
  attempts,   \* parse_lines: attempts, live attempt id -> AttemptState
  emitted,    \* parse_lines: emitted, the records appended so far
  pc,         \* "parsing" inside the loop, "done" after main wrote its outputs,
              \* "done again" after a second run of main
  export,     \* main: the rows written to the JSONL file
  summary,    \* main: the report of build_summary
  text,       \* the argument of a classify_error call
  category    \* the result of that call

vars == <<lines, attempts, emitted, pc, export, summary, text, category>>

\* None, as parse_attempt_id returns it; a timestamp that is not \d+
None == -1

---------------------------------------------------------------------------
(* Texts *)

Min(a, b) == IF a < b THEN a ELSE b
Max(a, b) == IF a > b THEN a ELSE b

\* str.lower() on one character
LowerChar(c) ==
  CASE c = "A" -> "a" [] c = "B" -> "b" [] c = "C" -> "c" [] c = "D" -> "d"
    [] c = "E" -> "e" [] c = "F" -> "f" [] c = "G" -> "g" [] c = "H" -> "h"
    [] c = "I" -> "i" [] c = "J" -> "j" [] c = "K" -> "k" [] c = "L" -> "l"
    [] c = "M" -> "m" [] c = "N" -> "n" [] c = "O" -> "o" [] c = "P" -> "p"
    [] c = "Q" -> "q" [] c = "R" -> "r" [] c = "S" -> "s" [] c = "T" -> "t"
    [] c = "U" -> "u" [] c = "V" -> "v" [] c = "W" -> "w" [] c = "X" -> "x"
    [] c = "Y" -> "y" [] c = "Z" -> "z" [] OTHER -> c

\* message.lower()
Lower(s) == [i \in 1..Len(s) |-> LowerChar(s[i])]

\* sub in s
Contains(s, sub) ==
  \E i \in 1..(Len(s) - Len(sub) + 1) :
    \A j \in 1..Len(sub) : s[i + j - 1] = sub[j]

\* s[:n]
Take(s, n) == SubSeq(s, 1, Min(Len(s), n))

\* The marker substrings of classify_error
MUnknownHost == <<"u","n","k","n","o","w","n","h","o","s","t","e","x","c","e","p","t","i","o","n">>
MUnableToResolve == <<"u","n","a","b","l","e"," ","t","o"," ","r","e","s","o","l","v","e"," ","h","o","s","t">>
MTimeout == <<"t","i","m","e","o","u","t">>
MTimedOut == <<"t","i","m","e","d"," ","o","u","t">>
MHttp429 == <<"h","t","t","p"," ","4","2","9">>
MRate == <<"r","a","t","e">>
MHttp403 == <<"h","t","t","p"," ","4","0","3">>
MHttp401 == <<"h","t","t","p"," ","4","0","1">>
MSsl == <<"s","s","l">>
MNetworkIo == <<"n","e","t","w","o","r","k"," ","i","o">>

\* A variant of classify_error that tests the generic "timeout" markers
\* before the DNS ones.
classify_error_timeout_first(message) ==
  LET lowered == Lower(message) IN
  IF Contains(lowered, MTimeout) \/ Contains(lowered, MTimedOut) THEN "timeout"
  ELSE IF Contains(lowered, MUnknownHost) \/ Contains(lowered, MUnableToResolve) THEN "dns"
  ELSE IF Contains(lowered, MHttp429) \/ Contains(lowered, MRate) THEN "rate_limit"
  ELSE IF Contains(lowered, MHttp403) THEN "http_forbidden"
  ELSE IF Contains(lowered, MHttp401) THEN "http_unauthorized"
  ELSE IF Contains(lowered, MSsl) THEN "tls_ssl"
  ELSE IF Contains(lowered, MNetworkIo) THEN "network_io"
  ELSE "other"

classify_error(message) ==
  LET lowered == Lower(message) IN
  IF Contains(lowered, MUnknownHost) \/ Contains(lowered, MUnableToResolve) THEN "dns"
  ELSE IF Contains(lowered, MTimeout) \/ Contains(lowered, MTimedOut) THEN "timeout"
  ELSE IF Contains(lowered, MHttp429) \/ Contains(lowered, MRate) THEN "rate_limit"
  ELSE IF Contains(lowered, MHttp403) THEN "http_forbidden"
  ELSE IF Contains(lowered, MHttp401) THEN "http_unauthorized"
  ELSE IF Contains(lowered, MSsl) THEN "tls_ssl"
  ELSE IF Contains(lowered, MNetworkIo) THEN "network_io"
  ELSE "other"

---------------------------------------------------------------------------
(* The line decoder *)

Digit == {"0","1","2","3","4","5","6","7","8","9"}
UpperOrUnderscore ==
  {"A","B","C","D","E","F","G","H","I","J","K","L","M","N","O","P","Q","R",
   "S","T","U","V","W","X","Y","Z","_"}
LowerLetter ==
  {"a","b","c","d","e","f","g","h","i","j","k","l","m","n","o","p","q","r",
   "s","t","u","v","w","x","y","z"}
\* [a-zA-Z0-9_\\-] of PRESET_RE
PresetChar == UpperOrUnderscore \cup LowerLetter \cup Digit \cup {"-", "\\"}
\* [^,|] of QUERY_RE, among the characters the messages use
QueryChar ==
  UpperOrUnderscore \cup LowerLetter \cup Digit \cup {" ", "\t", ".", ";", ":", "-", "="}
Whitespace == {" ", "\t"}

DigitVal(c) ==
  CASE c = "0" -> 0 [] c = "1" -> 1 [] c = "2" -> 2 [] c = "3" -> 3
    [] c = "4" -> 4 [] c = "5" -> 5 [] c = "6" -> 6 [] c = "7" -> 7
    [] c = "8" -> 8 [] c = "9" -> 9

\* int(digits)
RECURSIVE ParseInt(_)
ParseInt(d) ==
  IF d = <<>> THEN 0
  ELSE 10 * ParseInt(SubSeq(d, 1, Len(d) - 1)) + DigitVal(d[Len(d)])

\* The longest prefix of s made of characters of class C: what a group (C+)
\* captures at the start of s
RECURSIVE LeadingRun(_, _)
LeadingRun(s, C) ==
  IF s = <<>> \/ s[1] \notin C THEN <<>>
  ELSE <<s[1]>> \o LeadingRun(Tail(s), C)

\* str.strip(chars)
RECURSIVE LStrip(_, _)
LStrip(s, C) == IF s # <<>> /\ s[1] \in C THEN LStrip(Tail(s), C) ELSE s
RECURSIVE RStrip(_, _)
RStrip(s, C) ==
  IF s # <<>> /\ s[Len(s)] \in C THEN RStrip(SubSeq(s, 1, Len(s) - 1), C) ELSE s
Strip(s, C) == RStrip(LStrip(s, C), C)

\* re.sub(r"\s+", " ", s)
RECURSIVE CollapseWs(_)
CollapseWs(s) ==
  IF s = <<>> THEN <<>>
  ELSE IF s[1] \in Whitespace
       THEN <<" ">> \o CollapseWs(LStrip(s, Whitespace))
       ELSE <<s[1]>> \o CollapseWs(Tail(s))

\* The keys of the message fields the extractors search for
KAttempt == <<"a","t","t","e","m","p","t">>
KQuery == <<"q","u","e","r","y">>
KProvider == <<"p","r","o","v","i","d","e","r">>
KMode == <<"m","o","d","e">>
KPreset == <<"p","r","e","s","e","t">>
KResults == <<"r","e","s","u","l","t","s">>
\* the localized count phrase of FOUND_RE, transliterated; it is followed by
\* whitespace instead of "="
KFoundRu == <<"N","a","i","d","e","n","o">>
KThrowable == <<"t","h","r","o","w","a","b","l","e">>

\* One field of a message as text
FieldText(f) == f.k \o (IF f.k = KFoundRu THEN <<" ">> ELSE <<"=">>) \o f.v

\* The message as the string the code holds: its fields joined by ", "
RECURSIVE MsgText(_)
MsgText(msg) ==
  IF msg = <<>> THEN <<>>
  ELSE IF Len(msg) = 1 THEN FieldText(msg[1])
  ELSE FieldText(msg[1]) \o <<",", " ">> \o MsgText(Tail(msg))

\* pattern.search(msg): the index of the first field with one of the keys K
\* whose value starts with a non-empty run of the class C, 0 when there is none
FirstMatch(msg, K, C) ==
  LET I == {i \in 1..Len(msg) : msg[i].k \in K /\ LeadingRun(msg[i].v, C) # <<>>}
  IN IF I = {} THEN 0 ELSE CHOOSE i \in I : \A j \in I : i <= j

\* A decoder that does not require the playlist marker
LineMatchNoPlaylist(line) == line.ts # None /\ line.status # ""

\* LINE_RE.match(line)
LineMatch(line) == line.ts # None /\ line.status # "" /\ line.playlist

\* parse_attempt_id
parse_attempt_id(msg) ==
  LET i == FirstMatch(msg, {KAttempt}, Digit)
  IN IF i = 0 THEN None ELSE ParseInt(LeadingRun(msg[i].v, Digit))

\* parse_found_count
parse_found_count(msg) ==
  LET i == FirstMatch(msg, {KResults, KFoundRu}, Digit)
  IN IF i = 0 THEN 0 ELSE ParseInt(LeadingRun(msg[i].v, Digit))

\* extract_first(pattern, text, default), the pattern being key=(C+)
extract_first(key, C, msg, default) ==
  LET i == FirstMatch(msg, {key}, C)
  IN IF i = 0 THEN default ELSE Strip(LeadingRun(msg[i].v, C), Whitespace)

\* normalize_query
normalize_query(raw) ==
  Strip(CollapseWs(Strip(raw, Whitespace)), {" ", ",", ".", ";"})

---------------------------------------------------------------------------
(* The attempt reconstructor: parse_lines *)

SuccessLike == {"scanner_ok", "scanner_finish", "scanner_step_ok"}
ErrorLike ==
  {"scanner_error", "scanner_fatal", "scanner_step_error",
   "scanner_provider_error", "scanner_provider_timeout", "scanner_fail_fast",
   "scanner_timeout"}

DefaultProvider == <<"A","L","L">>
DefaultMode == <<"A","U","T","O">>
DefaultPreset == <<"-">>

\* The AttemptState the start branch builds.  statuses=[status] is a new list
\* object; shared_with holds the places in emitted of the records whose
\* "statuses" is this very list (line 169 stores the list, not a copy of it)
AttemptState(attempt_id, ts, status, msg) ==
  [attempt_id |-> attempt_id,
   started_at |-> ts,
   query |-> normalize_query(extract_first(KQuery, QueryChar, msg, <<>>)),
   provider |-> extract_first(KProvider, UpperOrUnderscore, msg, DefaultProvider),
   mode |-> extract_first(KMode, UpperOrUnderscore, msg, DefaultMode),
   preset |-> extract_first(KPreset, PresetChar, msg, DefaultPreset),
   found |-> 0,
   errors |-> <<>>,
   statuses |-> <<status>>,
   raw_messages |-> <<msg>>,
   shared_with |-> {}]

\* An update that leaves the count of the finish event out
UpdateFoundNotAtFinish(found, status, msg) ==
  IF status \in {"scanner_ok", "scanner_step_ok"}
  THEN Max(found, parse_found_count(msg)) ELSE found

\* An update that keeps the count of the latest success-like event
UpdateFoundLatest(found, status, msg) ==
  IF status \in SuccessLike THEN parse_found_count(msg) ELSE found

\* state.found = max(state.found, parse_found_count(msg)) on a success-like status
UpdateFound(found, status, msg) ==
  IF status \in SuccessLike THEN Max(found, parse_found_count(msg)) ELSE found

\* state.errors.append(msg) on an error-like status
UpdateErrors(errors, status, msg) ==
  IF status \in ErrorLike THEN Append(errors, msg) ELSE errors

\* A fold that records the status of the success-like and error-like events only
FoldEventKnownOnly(state, status, msg) ==
  [state EXCEPT !.statuses = IF status \in SuccessLike \cup ErrorLike
                             THEN Append(@, status) ELSE @,
                !.raw_messages = Append(@, msg),
                !.found = UpdateFound(@, status, msg),
                !.errors = UpdateErrors(@, status, msg)]

\* A fold that takes query, provider, mode and preset again from every event
\* that carries them
FoldEventRecaptures(state, status, msg) ==
  [state EXCEPT !.statuses = Append(@, status),
                !.raw_messages = Append(@, msg),
                !.found = UpdateFound(@, status, msg),
                !.errors = UpdateErrors(@, status, msg),
                !.query = normalize_query(extract_first(KQuery, QueryChar, msg, @)),
                !.provider = extract_first(KProvider, UpperOrUnderscore, msg, @),
                !.mode = extract_first(KMode, UpperOrUnderscore, msg, @),
                !.preset = extract_first(KPreset, PresetChar, msg, @)]

\* What an event does to the open attempt it belongs to
FoldEvent(state, status, msg) ==
  [state EXCEPT !.statuses = Append(@, status),
                !.raw_messages = Append(@, msg),
                !.found = UpdateFound(@, status, msg),
                !.errors = UpdateErrors(@, status, msg)]

\* A label that calls every attempt without results failed
label_no_empty(found, errors) ==
  IF found > 0 THEN "success" ELSE "failed"

label(found, errors) ==
  IF found > 0 THEN "success" ELSE IF errors # <<>> THEN "failed" ELSE "empty"

\* A primary error that is the first recorded error
primary_error_first(errors) ==
  IF errors # <<>> THEN MsgText(errors[1]) ELSE <<>>

\* primary_error: the text of the last recorded error, "" when there is none
primary_error(errors) ==
  IF errors # <<>> THEN MsgText(errors[Len(errors)]) ELSE <<>>

error_type(err) ==
  IF err # <<>> THEN classify_error(err) ELSE ""

ErrorMaxLen == 1000

\* A record that names the error only when the attempt is labelled failed
RecordErrorWhenFailed(state, ts) ==
  LET failed == label(state.found, state.errors) = "failed" IN
  [attempt |-> state.attempt_id,
   started_at |-> state.started_at,
   finished_at |-> ts,
   query |-> state.query,
   provider |-> state.provider,
   mode |-> state.mode,
   preset |-> state.preset,
   found |-> state.found,
   label |-> label(state.found, state.errors),
   error_type |-> IF failed THEN error_type(primary_error(state.errors)) ELSE "",
   error |-> IF failed THEN Take(primary_error(state.errors), ErrorMaxLen) ELSE <<>>,
   statuses |-> state.statuses]

\* The dict appended to emitted at a finish
Record(state, ts) ==
  [attempt |-> state.attempt_id,
   started_at |-> state.started_at,
   finished_at |-> ts,
   query |-> state.query,
   provider |-> state.provider,
   mode |-> state.mode,
   preset |-> state.preset,
   found |-> state.found,
   label |-> label(state.found, state.errors),
   error_type |-> error_type(primary_error(state.errors)),
   error |-> Take(primary_error(state.errors), ErrorMaxLen),
   statuses |-> state.statuses]

\* state.statuses.append(status), as the records that hold the same list see it
AppendShared(em, shared, status) ==
  [k \in 1..Len(em) |->
     IF k \in shared THEN [em[k] EXCEPT !.statuses = Append(@, status)] ELSE em[k]]

\* attempts[attempt_id] = state
PutAttempt(att, attempt_id, state) ==
  [a \in DOMAIN att \cup {attempt_id} |-> IF a = attempt_id THEN state ELSE att[a]]

\* A pop that is forgotten: the closed attempt stays in the map
PopAttemptKeeps(att, attempt_id) == att

\* A pop that empties the whole map
PopAttemptClears(att, attempt_id) == <<>>

\* attempts.pop(attempt_id, None)
PopAttempt(att, attempt_id) ==
  [a \in DOMAIN att \ {attempt_id} |-> att[a]]

\* A start branch that leaves an attempt that is already live as it is
StartEventKeepsLive(att, em, ts, status, msg, attempt_id) ==
  IF attempt_id = None \/ attempt_id \in DOMAIN att THEN [attempts |-> att, emitted |-> em]
  ELSE [attempts |-> PutAttempt(att, attempt_id, AttemptState(attempt_id, ts, status, msg)),
        emitted |-> em]

\* The branch of the loop body for status == "scanner_start", without the
\* test for a missing attempt id
StartEventAnyId(att, em, ts, status, msg, attempt_id) ==
  [attempts |-> PutAttempt(att, attempt_id, AttemptState(attempt_id, ts, status, msg)),
   emitted |-> em]

\* The branch of the loop body for status == "scanner_start"
StartEvent(att, em, ts, status, msg, attempt_id) ==
  IF attempt_id = None THEN [attempts |-> att, emitted |-> em]
  ELSE [attempts |-> PutAttempt(att, attempt_id, AttemptState(attempt_id, ts, status, msg)),
        emitted |-> em]

\* A loop body that puts the record of a finish before the earlier records
OtherEventPrepends(att, em, ts, status, msg, attempt_id) ==
  IF attempt_id = None \/ attempt_id \notin DOMAIN att
  THEN [attempts |-> att, emitted |-> em]
  ELSE
    LET state == FoldEvent(att[attempt_id], status, msg) IN
    IF status = "scanner_finish"
    THEN [attempts |-> PopAttempt(att, attempt_id),
          emitted |-> <<Record(state, ts)>> \o em]
    ELSE [attempts |-> PutAttempt(att, attempt_id, state), emitted |-> em]

\* The loop body for every other status
OtherEvent(att, em, ts, status, msg, attempt_id) ==
  IF attempt_id = None \/ attempt_id \notin DOMAIN att
  THEN [attempts |-> att, emitted |-> em]
  ELSE
    LET state == FoldEvent(att[attempt_id], status, msg)
        em1 == AppendShared(em, state.shared_with, status)
    IN
    IF status = "scanner_finish"
    THEN LET closed == [state EXCEPT !.shared_with = @ \cup {Len(em1) + 1}]
         IN [attempts |-> PopAttempt(PutAttempt(att, attempt_id, closed), attempt_id),
             emitted |-> Append(em1, Record(state, ts))]
    ELSE [attempts |-> PutAttempt(att, attempt_id, state), emitted |-> em1]

\* One iteration of the loop of parse_lines, on the pair (attempts, emitted)
ProcessLineStep(att, em, line) ==
  IF ~LineMatch(line) THEN [attempts |-> att, emitted |-> em]
  ELSE
    LET ts == line.ts
        status == line.status
        msg == line.msg
        attempt_id == parse_attempt_id(msg)
    IN IF status = "scanner_start"
       THEN StartEvent(att, em, ts, status, msg, attempt_id)
       ELSE OtherEvent(att, em, ts, status, msg, attempt_id)

\* parse_lines(input): the records emitted for a whole input
RECURSIVE ParseFrom(_, _, _)
ParseFrom(att, em, input) ==
  IF input = <<>> THEN em
  ELSE LET r == ProcessLineStep(att, em, Head(input))
       IN ParseFrom(r.attempts, r.emitted, Tail(input))

\* A parse_lines whose live map is not a fresh local: it starts from the map
\* an earlier call left behind
parse_lines_keeps_attempts(input) == ParseFrom(attempts, <<>>, input)

parse_lines(input) == ParseFrom(<<>>, <<>>, input)

\* The live map of parse_lines when its loop ends
RECURSIVE LiveFrom(_, _)
LiveFrom(att, input) ==
  IF input = <<>> THEN att
  ELSE LiveFrom(ProcessLineStep(att, <<>>, Head(input)).attempts, Tail(input))

---------------------------------------------------------------------------
(* The reporter: build_summary, and the rows main writes *)

\* Counter(keys): the distinct keys in first-occurrence order, with their counts
RECURSIVE CounterOf(_)
CounterOf(keys) ==
  IF keys = <<>> THEN <<>>
  ELSE LET c == CounterOf(SubSeq(keys, 1, Len(keys) - 1))
           k == keys[Len(keys)]
       IN IF \E i \in 1..Len(c) : c[i].key = k
          THEN [i \in 1..Len(c) |-> IF c[i].key = k THEN [c[i] EXCEPT !.n = @ + 1] ELSE c[i]]
          ELSE Append(c, [key |-> k, n |-> 1])

\* A most_common that does not sort: the keys as the Counter holds them
MostCommonUnsorted(c) == c

\* Counter.most_common(): by count, largest first, equal counts in the order
\* the keys were first met (the sort is stable)
MostCommon(c) ==
  LET rank(i) == Cardinality({j \in 1..Len(c) : c[j].n > c[i].n \/ (c[j].n = c[i].n /\ j < i)}) + 1
  IN [p \in 1..Len(c) |-> c[CHOOSE i \in 1..Len(c) : rank(i) = p]]

TopN == 10

\* Counter.most_common(10)
MostCommonTop(c) == Take(MostCommon(c), TopN)

\* A provider count that looks at the successful records only
ProvidersOfSuccesses(entries) ==
  LET s == SelectSeq(entries, LAMBDA x : x.label = "success")
  IN [i \in 1..Len(s) |-> s[i].provider]

\* (x[field] for x in entries), for the four fields build_summary counts
QueriesOf(entries) == [i \in 1..Len(entries) |-> entries[i].query]
ErrorTypesOf(entries) == [i \in 1..Len(entries) |-> <<entries[i].error_type>>]
ProvidersOf(entries) == [i \in 1..Len(entries) |-> entries[i].provider]
ModesOf(entries) == [i \in 1..Len(entries) |-> entries[i].mode]

\* The lines of the report: fixed text, a count line, an item of a breakdown
Txt(s) == [kind |-> "text", s |-> s, key |-> <<>>, n |-> 0]
CountLine(s, n) == [kind |-> "count", s |-> s, key |-> <<>>, n |-> n]
Item(section, key, n) == [kind |-> "item", s |-> section, key |-> key, n |-> n]
NoData == Txt("- no data")

Items(section, c) == [i \in 1..Len(c) |-> Item(section, c[i].key, c[i].n)]

\* "# AI training summary\n\n<no completed scanner_finish attempts in the log>\n"
NoAttemptsSummary ==
  <<Txt("# AI training summary"), Txt(""), Txt("no completed scanner_finish attempts in the log")>>

Guidance ==
  <<Txt(""), Txt("## training advice"),
    Txt("- use only label=success queries"),
    Txt("- for dns/timeout fix the network first"),
    Txt("- add new variants in batches of 3-5")>>

\* build_summary past its first test: the counts and the breakdowns
FullSummary(entries) ==
    LET total == Len(entries)
        successes == SelectSeq(entries, LAMBDA x : x.label = "success")
        failures == SelectSeq(entries, LAMBDA x : x.label = "failed")
        empties == SelectSeq(entries, LAMBDA x : x.label = "empty")
        success_queries ==
          CounterOf(QueriesOf(SelectSeq(successes, LAMBDA x : x.query # <<>>)))
        fail_types ==
          CounterOf(ErrorTypesOf(SelectSeq(failures, LAMBDA x : x.error_type # "")))
        providers == CounterOf(ProvidersOf(entries))
        modes == CounterOf(ModesOf(entries))
    IN <<Txt("# AI training summary"), Txt(""),
         CountLine("total", total),
         CountLine("success", Len(successes)),
         CountLine("empty", Len(empties)),
         CountLine("failed", Len(failures)),
         Txt(""), Txt("## top successful queries")>>
       \o (IF success_queries # <<>>
           THEN Items("queries", MostCommonTop(success_queries)) ELSE <<NoData>>)
       \o <<Txt(""), Txt("## frequent error causes")>>
       \o (IF fail_types # <<>>
           THEN Items("errors", MostCommonTop(fail_types)) ELSE <<NoData>>)
       \o <<Txt(""), Txt("## distribution by provider")>>
       \o Items("providers", MostCommon(providers))
       \o <<Txt(""), Txt("## distribution by mode")>>
       \o Items("modes", MostCommon(modes))
       \o Guidance

\* A build_summary without the test for no entries
build_summary_always_full(entries) == FullSummary(entries)

build_summary(entries) ==
  IF entries = <<>> THEN NoAttemptsSummary ELSE FullSummary(entries)

\* json.dumps(row): the members of the object in the order the dict holds them
JsonDumps(row) ==
  << <<"attempt", row.attempt>>, <<"started_at", row.started_at>>,
     <<"finished_at", row.finished_at>>, <<"query", row.query>>,
     <<"provider", row.provider>>, <<"mode", row.mode>>,
     <<"preset", row.preset>>, <<"found", row.found>>,
     <<"label", row.label>>, <<"error_type", row.error_type>>,
     <<"error", row.error>>, <<"statuses", row.statuses>> >>

\* The lines main writes to the JSONL file, one per row
WriteJsonl(entries) == [i \in 1..Len(entries) |-> JsonDumps(entries[i])]

---------------------------------------------------------------------------
(* The log lines the runs draw from *)

MaxLines == 4

AttemptIds == {1, 2}

F(k, v) == [k |-> k, v |-> v]
Line(ts, status, msg) == [ts |-> ts, status |-> status, playlist |-> TRUE, msg |-> msg]

TFoo == <<"f","o","o">>
TM3u == <<" ","m","3","u",".">>
TAll == <<"A","L","L">>
TAuto == <<"A","U","T","O">>
TUnknownHost == <<"U","n","k","n","o","w","n","H","o","s","t","E","x","c","e","p","t","i","o","n",":"," ","x">>
THttp403 == <<"H","T","T","P"," ","4","0","3">>
TTimedOut == <<"R","e","a","d"," ","t","i","m","e","d"," ","o","u","t">>

IdText(a) == IF a = 1 THEN <<"1">> ELSE IF a = 2 THEN <<"2">> ELSE <<"9">>

\* 100|scanner_start|playlist=-|attempt=1, query=foo, provider=ALL, mode=AUTO
StartLine(a) ==
  IF a = 1
  THEN Line(100, "scanner_start",
            <<F(KAttempt, IdText(a)), F(KQuery, TFoo), F(KProvider, TAll), F(KMode, TAuto)>>)
  ELSE Line(110, "scanner_start", <<F(KAttempt, IdText(a)), F(KQuery, TM3u)>>)

\* 200|scanner_finish|playlist=-|attempt=1, results=5
FinishLine(a, n) ==
  Line(200, "scanner_finish", <<F(KAttempt, IdText(a)), F(KResults, n)>>)

\* 150|scanner_fatal|playlist=-|attempt=2, throwable=UnknownHostException: x
FatalLine(a) ==
  Line(150, "scanner_fatal", <<F(KAttempt, IdText(a)), F(KThrowable, TUnknownHost)>>)

TimeoutLine(a) ==
  Line(165, "scanner_provider_timeout", <<F(KAttempt, IdText(a)), F(KThrowable, TTimedOut)>>)

OkLine(a) ==
  Line(170, "scanner_ok", <<F(KAttempt, IdText(a)), F(KFoundRu, <<"3">>)>>)

\* a status of neither family
ProgressLine(a) ==
  Line(180, "scanner_progress", <<F(KAttempt, IdText(a))>>)

\* a finish line without the playlist part: LINE_RE does not match it
NoPlaylistLine ==
  [ts |-> 300, status |-> "scanner_finish", playlist |-> FALSE,
   msg |-> <<F(KAttempt, <<"1">>), F(KResults, <<"5">>)>>]

\* free text: no timestamp, no status
FreeTextLine == [ts |-> None, status |-> "", playlist |-> FALSE, msg |-> <<>>]

StartNoIdLine == Line(120, "scanner_start", <<F(KQuery, TFoo)>>)
FinishNoIdLine == Line(220, "scanner_finish", <<F(KResults, <<"7">>)>>)

Corpus ==
  {StartLine(a) : a \in AttemptIds}
    \cup {FinishLine(1, <<"5">>), FinishLine(1, <<"0">>), FinishLine(2, <<"0">>)}
    \cup {FatalLine(1), TimeoutLine(2), OkLine(1), ProgressLine(1)}
    \cup {NoPlaylistLine}

\* One line of each error-like status, each with an error text of its own
TSsl == <<"S","S","L"," ","h","a","n","d","s","h","a","k","e">>
THttp429 == <<"H","T","T","P"," ","4","2","9">>
TBoom == <<"b","o","o","m">>
TNetworkIo == <<"N","e","t","w","o","r","k"," ","I","O">>
KError == <<"e","r","r","o","r">>

ErrorEvent(ts, status, t) == Line(ts, status, <<F(KAttempt, <<"1">>), F(KError, t)>>)

ErrorCorpus ==
  {StartLine(1), FinishLine(1, <<"0">>), FinishLine(1, <<"5">>)}
    \cup {ErrorEvent(151, "scanner_error", THttp403),
          ErrorEvent(152, "scanner_fatal", TUnknownHost),
          ErrorEvent(153, "scanner_step_error", TSsl),
          ErrorEvent(154, "scanner_provider_error", THttp429),
          ErrorEvent(155, "scanner_provider_timeout", TTimedOut),
          ErrorEvent(156, "scanner_fail_fast", TBoom),
          ErrorEvent(157, "scanner_timeout", TNetworkIo)}

\* Lines that are no event of any attempt, among the lines of one attempt
ProgressNoIdLine == Line(185, "scanner_progress", <<F(KQuery, TFoo)>>)

NoiseCorpus ==
  {StartLine(1), FatalLine(1), FinishLine(1, <<"5">>)}
    \cup {NoPlaylistLine, FreeTextLine, ProgressLine(9), ProgressNoIdLine,
          StartNoIdLine, FinishNoIdLine}

\* The events of one attempt id with counts and query/provider/mode/preset
\* fields in places where the code does not read them
TBar == <<"b","a","r">>
TWeb == <<"W","E","B">>
TDeep == <<"D","E","E","P">>
TFast == <<"F","A","S","T">>
TPresetOne == <<"p","1">>
TPresetTwo == <<"p","2">>

\* 100|scanner_start|playlist=-|attempt=1, query=foo, provider=WEB, mode=DEEP,
\* preset=p1, results=9
RichStartLine ==
  Line(100, "scanner_start",
       <<F(KAttempt, <<"1">>), F(KQuery, TFoo), F(KProvider, TWeb), F(KMode, TDeep),
         F(KPreset, TPresetOne), F(KResults, <<"9">>)>>)

\* 130|scanner_start|playlist=-|attempt=1
BareStartLine == Line(130, "scanner_start", <<F(KAttempt, <<"1">>)>>)

\* 150|scanner_error|playlist=-|attempt=1, results=7, error=HTTP 403
CountedErrorLine ==
  Line(150, "scanner_error",
       <<F(KAttempt, <<"1">>), F(KResults, <<"7">>), F(KError, THttp403)>>)

\* 180|scanner_progress|playlist=-|attempt=1, query=bar, provider=ALL,
\* mode=FAST, preset=p2, results=8
FieldsProgressLine ==
  Line(180, "scanner_progress",
       <<F(KAttempt, <<"1">>), F(KQuery, TBar), F(KProvider, TAll), F(KMode, TFast),
         F(KPreset, TPresetTwo), F(KResults, <<"8">>)>>)

\* 175|scanner_step_ok|playlist=-|attempt=1, results=4, provider=ALL
StepOkLine ==
  Line(175, "scanner_step_ok",
       <<F(KAttempt, <<"1">>), F(KResults, <<"4">>), F(KProvider, TAll)>>)

FieldCorpus ==
  {RichStartLine, BareStartLine, CountedErrorLine, FieldsProgressLine, StepOkLine,
   OkLine(1), FinishLine(1, <<"2">>), FinishLine(1, <<"0">>)}

\* Two attempts whose finishes carry timestamps of their own
FinishAt(a, ts) ==
  Line(ts, "scanner_finish", <<F(KAttempt, IdText(a)), F(KResults, <<"1">>)>>)

OrderCorpus ==
  {StartLine(1), StartLine(2),
   FinishAt(1, 90), FinishAt(1, 250), FinishAt(2, 90), FinishAt(2, 250)}

AllLines == Corpus \cup ErrorCorpus \cup NoiseCorpus \cup FieldCorpus \cup OrderCorpus

\* The error texts classify_error is called on: the phrases below, any
\* selection of them joined by "; ", in the order listed or in the reverse order
PhraseList ==
  <<<<"U","n","k","n","o","w","n","H","o","s","t","E","x","c","e","p","t","i","o","n">>,
    <<"U","n","a","b","l","e"," ","t","o"," ","r","e","s","o","l","v","e"," ","h","o","s","t">>,
    <<"S","o","c","k","e","t","T","i","m","e","o","u","t","E","x","c","e","p","t","i","o","n">>,
    <<"R","e","a","d"," ","t","i","m","e","d"," ","o","u","t">>,
    <<"H","T","T","P"," ","4","2","9">>,
    <<"R","a","t","e"," ","e","x","c","e","e","d","e","d">>,
    <<"H","T","T","P"," ","4","0","3">>,
    <<"H","T","T","P"," ","4","0","1">>,
    <<"S","S","L","H","a","n","d","s","h","a","k","e","E","x","c","e","p","t","i","o","n">>,
    <<"N","e","t","w","o","r","k"," ","I","O">>,
    <<"b","o","o","m">>>>

RECURSIVE JoinUp(_, _)
JoinUp(S, i) ==
  IF i > Len(PhraseList) THEN <<>>
  ELSE IF i \in S THEN PhraseList[i] \o <<";", " ">> \o JoinUp(S, i + 1)
  ELSE JoinUp(S, i + 1)

RECURSIVE JoinDown(_, _)
JoinDown(S, i) ==
  IF i = 0 THEN <<>>
  ELSE IF i \in S THEN PhraseList[i] \o <<";", " ">> \o JoinDown(S, i - 1)
  ELSE JoinDown(S, i - 1)

ErrorTexts ==
  {JoinUp(S, 1) : S \in SUBSET (1..Len(PhraseList))}
    \cup {JoinDown(S, Len(PhraseList)) : S \in SUBSET (1..Len(PhraseList))}

\* The record sequences build_summary is called on: the records parse_lines
\* emits for one attempt with a query, a provider and a mode of its own
QueryNames == <<"a","b","c","d","e","f","g","h","i","j","k","l">>
Q(i) == <<"q", QueryNames[i]>>

QueryStart(q, p, m) ==
  Line(100, "scanner_start",
       <<F(KAttempt, <<"1">>), F(KQuery, q), F(KProvider, p), F(KMode, m)>>)

SuccessEntry(q, p, m) ==
  parse_lines(<<QueryStart(q, p, m), FinishLine(1, <<"5">>)>>)[1]
FailedEntry(q, p, m) ==
  parse_lines(<<QueryStart(q, p, m), FatalLine(1), FinishLine(1, <<"0">>)>>)[1]
EmptyEntry(q, p, m) ==
  parse_lines(<<QueryStart(q, p, m), FinishLine(1, <<"0">>)>>)[1]
\* a successful attempt whose start carries no query
NoQueryEntry ==
  parse_lines(<<Line(100, "scanner_start", <<F(KAttempt, <<"1">>)>>),
                FinishLine(1, <<"5">>)>>)[1]

\* n successful attempts of n different queries, in the one and the other order
QueriesUp(n) == [i \in 1..n |-> SuccessEntry(Q(i), TAll, TAuto)]
QueriesDown(n) == [i \in 1..n |-> SuccessEntry(Q(n + 1 - i), TAll, TAuto)]

BaseEntries == {<<>>, QueriesUp(9), QueriesUp(11), QueriesDown(11)}

ExtraEntries ==
  {SuccessEntry(Q(11), TAll, TDeep), SuccessEntry(Q(12), TWeb, TAuto),
   SuccessEntry(Q(3), TAll, TAuto), FailedEntry(Q(12), TWeb, TDeep),
   EmptyEntry(Q(1), TAll, TAuto), NoQueryEntry}

MaxExtra == 3

\* A base sequence followed by at most MaxExtra further records
ReportInputs ==
  {base \o extra : base \in BaseEntries,
                   extra \in UNION {[1..n -> ExtraEntries] : n \in 0..MaxExtra}}

---------------------------------------------------------------------------
(* The program *)

Init ==
  /\ lines = <<>>
  /\ attempts = <<>>
  /\ emitted = <<>>
  /\ pc = "parsing"
  /\ export = <<>>
  /\ summary = <<>>
  /\ text = <<>>
  /\ category = ""

\* for line in lines: one iteration of the loop
ProcessLine(line) ==
  /\ pc = "parsing"
  /\ Len(lines) < MaxLines
  /\ LET r == ProcessLineStep(attempts, emitted, line)
     IN /\ attempts' = r.attempts
        /\ emitted' = r.emitted
  /\ lines' = Append(lines, line)
  /\ UNCHANGED <<pc, export, summary, text, category>>

\* main, after the loop: entries = parse_lines(lines) is written out and
\* summarised
EndOfInput ==
  /\ pc = "parsing"
  /\ pc' = "done"
  /\ export' = WriteJsonl(emitted)
  /\ summary' = build_summary(emitted)
  /\ UNCHANGED <<lines, attempts, emitted, text, category>>

Next ==
  \/ \E line \in Corpus : ProcessLine(line)
  \/ EndOfInput

Spec == Init /\ [][Next]_vars

\* The same program on the log lines of ErrorCorpus
NextErrors ==
  \/ \E line \in ErrorCorpus : ProcessLine(line)
  \/ EndOfInput

SpecErrors == Init /\ [][NextErrors]_vars

\* The same program on the log lines of NoiseCorpus
NextNoise ==
  \/ \E line \in NoiseCorpus : ProcessLine(line)
  \/ EndOfInput

SpecNoise == Init /\ [][NextNoise]_vars

\* The same program on the log lines of FieldCorpus
NextFields ==
  \/ \E line \in FieldCorpus : ProcessLine(line)
  \/ EndOfInput

SpecFields == Init /\ [][NextFields]_vars

\* The same program on the log lines of OrderCorpus
NextOrder ==
  \/ \E line \in OrderCorpus : ProcessLine(line)
  \/ EndOfInput

SpecOrder == Init /\ [][NextOrder]_vars

\* main run a second time on the input the first run read: parse_lines starts
\* from its own empty attempts and emitted, and the two files are overwritten
RunAgain ==
  /\ pc = "done"
  /\ pc' = "done again"
  /\ LET entries == parse_lines(lines)
     IN /\ emitted' = entries
        /\ export' = WriteJsonl(entries)
        /\ summary' = build_summary(entries)
  /\ attempts' = LiveFrom(<<>>, lines)
  /\ UNCHANGED <<lines, text, category>>

NextTwice ==
  \/ \E line \in Corpus : ProcessLine(line)
  \/ EndOfInput
  \/ RunAgain

SpecTwice == Init /\ [][NextTwice]_vars

\* build_summary on its own: one call on a sequence of records
InitReport ==
  /\ lines = <<>>
  /\ attempts = <<>>
  /\ emitted \in ReportInputs
  /\ pc = "report"
  /\ export = <<>>
  /\ summary = <<>>
  /\ text = <<>>
  /\ category = ""

Summarise ==
  /\ pc = "report"
  /\ summary' = build_summary(emitted)
  /\ pc' = "reported"
  /\ UNCHANGED <<lines, attempts, emitted, export, text, category>>

NextReport == Summarise

SpecReport == InitReport /\ [][NextReport]_vars

\* classify_error on its own: one call on an error text
InitClassify ==
  /\ lines = <<>>
  /\ attempts = <<>>
  /\ emitted = <<>>
  /\ pc = "classify"
  /\ export = <<>>
  /\ summary = <<>>
  /\ text \in ErrorTexts
  /\ category = ""

Classify ==
  /\ pc = "classify"
  /\ category' = classify_error(text)
  /\ pc' = "classified"
  /\ UNCHANGED <<lines, attempts, emitted, export, summary, text>>

NextClassify == Classify

SpecClassify == InitClassify /\ [][NextClassify]_vars

---------------------------------------------------------------------------
(* Reading the consumed input: what the log itself says, line by line *)

\* The line has the three-part structure: a numeric timestamp, a status token
\* and a payload introduced by the playlist marker
WellFormed(l) == l.ts # None /\ l.status # "" /\ l.playlist

\* The line is a decoded event carrying the attempt id a
\* The attempt id and the result count recoverable from each line's message
AttemptIdOf == [l \in AllLines |-> parse_attempt_id(l.msg)]
FoundCountOf == [l \in AllLines |-> parse_found_count(l.msg)]

Carries(l, a) == WellFormed(l) /\ AttemptIdOf[l] = a
IsStartOf(l, a) == Carries(l, a) /\ l.status = "scanner_start"
IsFinishOf(l, a) == Carries(l, a) /\ l.status = "scanner_finish"

\* The attempt ids the lines of an input carry
IdsOf(input) ==
  {AttemptIdOf[input[i]] : i \in {j \in 1..Len(input) : WellFormed(input[j])}} \ {None}

MaxOf(S) == IF S = {} THEN 0 ELSE CHOOSE x \in S : \A y \in S : y <= x

\* The last start, and the last start or finish, of id a among lines[1..j]
LastStart(a, j) == MaxOf({i \in 1..j : IsStartOf(lines[i], a)})
LastStartOrFinish(a, j) ==
  MaxOf({i \in 1..j : IsStartOf(lines[i], a) \/ IsFinishOf(lines[i], a)})

\* id a is open after lines[1..j]
OpenAfter(a, j) ==
  LET i == LastStartOrFinish(a, j) IN i > 0 /\ IsStartOf(lines[i], a)

\* lines[j] is a finish that closes an open attempt
Closes(j) ==
  /\ WellFormed(lines[j])
  /\ lines[j].status = "scanner_finish"
  /\ AttemptIdOf[lines[j]] # None
  /\ OpenAfter(AttemptIdOf[lines[j]], j - 1)

\* The lines of the closing finishes among lines[1..j], in order
RECURSIVE ClosingsUpTo(_)
ClosingsUpTo(j) ==
  IF j = 0 THEN <<>>
  ELSE IF Closes(j) THEN Append(ClosingsUpTo(j - 1), j) ELSE ClosingsUpTo(j - 1)

\* The k-th element is the line of the k-th closing finish
Closings == ClosingsUpTo(Len(lines))

\* The lines that belong to the attempt closed at line j: its start, the
\* events carrying its id after the start, and the finish
ClosedId(j) == AttemptIdOf[lines[j]]
StartOf(j) == LastStart(ClosedId(j), j - 1)
EventsOf(j) == {i \in (StartOf(j) + 1)..j : Carries(lines[i], ClosedId(j))}

ErrorStatuses ==
  {"scanner_error", "scanner_fatal", "scanner_step_error", "scanner_provider_error",
   "scanner_provider_timeout", "scanner_fail_fast", "scanner_timeout"}
ErrorsOf(j) == {i \in EventsOf(j) : lines[i].status \in ErrorStatuses}

CountStatuses == {"scanner_ok", "scanner_step_ok", "scanner_finish"}
\* The positive result counts among the events of the attempt closed at line j
PositiveCountsOf(j) ==
  {i \in EventsOf(j) : lines[i].status \in CountStatuses /\ FoundCountOf[lines[i]] > 0}

\* Every record has its closing finish in the input
Matched == Len(emitted) = Len(Closings)

---------------------------------------------------------------------------
(* Claims *)

\* C1: every emitted record's label is one of success / failed / empty:
\* "success" if found > 0, otherwise "failed" if at least one error was
\* recorded for the attempt, otherwise "empty".
C1_LabelDecidedAtFinish ==
  LET cl == Closings IN
  \A k \in 1..Min(Len(emitted), Len(cl)) :
    LET r == emitted[k]
        j == cl[k]
    IN /\ r.label \in {"success", "failed", "empty"}
       /\ r.label = (IF r.found > 0 THEN "success"
                     ELSE IF ErrorsOf(j) # {} THEN "failed" ELSE "empty")

\* A record labelled "failed": no results and a recorded error
C1_Witness ==
  /\ Matched
  /\ \E k \in 1..Len(emitted) :
       emitted[k].label = "failed" /\ emitted[k].found = 0 /\ ErrorsOf(Closings[k]) # {}

\* C2: for a start followed by the finish of the same attempt id with no
\* event of that id in between, the label is "success" iff the result count
\* recoverable from the finish event is strictly positive.
C2_StartFinishLabel ==
  LET cl == Closings IN
  \A k \in 1..Min(Len(emitted), Len(cl)) :
    LET j == cl[k] IN
    EventsOf(j) = {j} =>
      (emitted[k].label = "success" <=> FoundCountOf[lines[j]] > 0)

\* The scenario of the specification: attempt 1 started with query=foo and
\* finished with results=5 gives one record with found 5, label "success",
\* error_type "" and query "foo"
C2_Witness ==
  /\ lines = <<StartLine(1), FinishLine(1, <<"5">>)>>
  /\ Len(emitted) = 1
  /\ emitted[1].attempt = 1
  /\ emitted[1].found = 5
  /\ emitted[1].label = "success"
  /\ emitted[1].error_type = ""
  /\ emitted[1].query = <<"f","o","o">>

\* C3: a closed attempt with at least one error-like event (scanner_error,
\* scanner_fatal, scanner_step_error, scanner_provider_error,
\* scanner_provider_timeout, scanner_fail_fast, scanner_timeout) and no positive
\* result count is labelled "failed", and its error_type is the classification
\* of the text of the last of its error events.
C3_FailedWithLastError ==
  LET cl == Closings IN
  \A k \in 1..Min(Len(emitted), Len(cl)) :
    LET j == cl[k]
        errs == ErrorsOf(j)
    IN (errs # {} /\ PositiveCountsOf(j) = {}) =>
         /\ emitted[k].label = "failed"
         /\ emitted[k].error_type = classify_error(MsgText(lines[MaxOf(errs)].msg))

\* An attempt failed after two errors of different categories; the record
\* carries the category of the second
C3_Witness ==
  /\ Len(emitted) = 1
  /\ Len(lines) = 4
  /\ lines[2] = ErrorEvent(152, "scanner_fatal", TUnknownHost)
  /\ lines[3] = ErrorEvent(157, "scanner_timeout", TNetworkIo)
  /\ emitted[1].label = "failed"
  /\ emitted[1].error_type = "network_io"

\* C4: the records of an attempt id correspond one to one to the finish events
\* processed while the id is open: the k-th record is the record of the k-th
\* such finish; a finish of an id that is not open and a start that no finish
\* follows give no record, also at the end of the input.
C4_OneRecordPerClosing ==
  LET cl == Closings IN
  /\ Len(emitted) = Len(cl)
  /\ \A k \in 1..Min(Len(emitted), Len(cl)) :
       /\ emitted[k].attempt = ClosedId(cl[k])
       /\ emitted[k].finished_at = lines[cl[k]].ts
  /\ \A a \in IdsOf(lines) :
       Cardinality({k \in 1..Len(emitted) : emitted[k].attempt = a})
         = Cardinality({k \in 1..Len(cl) : ClosedId(cl[k]) = a})
  /\ pc = "done" => Len(export) = Len(cl)

\* Attempt 1 was closed, reopened and closed again: two records for id 1
C4_Witness ==
  /\ Cardinality({k \in 1..Len(Closings) : ClosedId(Closings[k]) = 1}) = 2
  /\ Cardinality({k \in 1..Len(emitted) : emitted[k].attempt = 1}) = 2

\* C5: after any prefix of the input an attempt id is in the live map iff the
\* most recent start or finish event carrying it was a scanner_start; the map
\* is empty before the first line.
C5_LiveIffLastIsStart ==
  /\ DOMAIN attempts = {a \in IdsOf(lines) : OpenAfter(a, Len(lines))}
  /\ lines = <<>> => DOMAIN attempts = {}

\* Id 1 was closed and is not live, id 2 is live, and a finish of the closed
\* id and an event of another status have been consumed since
C5_Witness ==
  /\ DOMAIN attempts = {2}
  /\ \E k \in 1..Len(Closings) : ClosedId(Closings[k]) = 1
  /\ Len(lines) = MaxLines

\* C6: with the events of several attempt ids interleaved, the records emitted
\* for each id are the records obtained by processing that id's events alone.
C6_InterleavingIndependent ==
  \A a \in IdsOf(lines) :
    SelectSeq(emitted, LAMBDA r : r.attempt = a)
      = parse_lines(SelectSeq(lines, LAMBDA l : Carries(l, a)))

\* Attempts 1 and 2 were open at the same time and both were closed
C6_Witness ==
  /\ Len(emitted) = 2
  /\ emitted[1].attempt # emitted[2].attempt
  /\ Len(Closings) = 2
  /\ StartOf(Closings[2]) < Closings[1]
  /\ StartOf(Closings[1]) < Closings[2]

\* The statuses parse_lines tells apart; a line is unknown or garbage when it
\* has not the three-part structure, or has another status and no attempt id
\* that a start of the input carries
KnownStatuses == {"scanner_start"} \cup CountStatuses \cup ErrorStatuses
UnknownOrGarbage(l, input) ==
  \/ ~WellFormed(l)
  \/ /\ l.status \notin KnownStatuses
     /\ \A i \in 1..Len(input) : ~IsStartOf(input[i], AttemptIdOf[l])

\* C7: unknown or garbage lines never change the emitted records: the records
\* of an input are the records of the same input without its lines that have
\* not the three-part structure and without its lines of an unknown status
\* that carry no attempt id or an id that no start of the input carries.
C7_GarbageChangesNothing ==
  emitted = parse_lines(SelectSeq(lines, LAMBDA l : ~UnknownOrGarbage(l, lines)))

\* A line that LINE_RE rejects and a line of an unknown status stand between
\* the start and the finish of an attempt whose record was emitted
C7_Witness ==
  /\ Len(emitted) = 1
  /\ Len(Closings) = 1
  /\ \E i \in (StartOf(Closings[1]) + 1)..(Closings[1] - 1) : ~WellFormed(lines[i])
  /\ \E i \in (StartOf(Closings[1]) + 1)..(Closings[1] - 1) :
       WellFormed(lines[i]) /\ UnknownOrGarbage(lines[i], lines)

\* The line is one of the events to ignore, given the live map att
Ignored(l, att) ==
  \/ ~WellFormed(l)
  \/ l.status = "scanner_start" /\ AttemptIdOf[l] = None
  \/ l.status # "scanner_start"
       /\ (AttemptIdOf[l] = None \/ AttemptIdOf[l] \notin DOMAIN att)

\* C8: a line that fails to decode, a scanner_start without a recoverable
\* attempt id and an event of another status whose attempt id is absent or not
\* live leave the live map and the emitted records as they were, and the loop
\* goes on.
C8_IgnoredIsNoOp ==
  [][(lines' # lines /\ Ignored(lines'[Len(lines')], attempts))
       => (attempts' = attempts /\ emitted' = emitted /\ pc' = "parsing")]_vars

\* With attempt 1 open, a start without id, a finish without id and a line
\* that does not decode were consumed, and the attempt is as its start left it
C8_Witness ==
  /\ DOMAIN attempts = {1}
  /\ attempts[1].statuses = <<"scanner_start">>
  /\ emitted = <<>>
  /\ \E i \in 1..Len(lines) : lines[i] = StartNoIdLine
  /\ \E i \in 1..Len(lines) : lines[i] = FinishNoIdLine
  /\ \E i \in 1..Len(lines) : ~WellFormed(lines[i])

\* The priority order of the categories, the markers of each, and the ranks
\* of the categories a text holds a marker of
Priority ==
  <<"dns", "timeout", "rate_limit", "http_forbidden", "http_unauthorized",
    "tls_ssl", "network_io">>
MarkersOf(c) ==
  CASE c = "dns" -> {MUnknownHost, MUnableToResolve}
    [] c = "timeout" -> {MTimeout, MTimedOut}
    [] c = "rate_limit" -> {MHttp429, MRate}
    [] c = "http_forbidden" -> {MHttp403}
    [] c = "http_unauthorized" -> {MHttp401}
    [] c = "tls_ssl" -> {MSsl}
    [] c = "network_io" -> {MNetworkIo}
Present(c, t) == \E m \in MarkersOf(c) : Contains(Lower(t), m)
PresentRanks(t) == {i \in 1..Len(Priority) : Present(Priority[i], t)}

\* C9: the category of an error text is the first, in the order dns, timeout,
\* rate_limit, http_forbidden, http_unauthorized, tls_ssl, network_io, of the
\* categories one of whose markers the text holds in any letter case, and
\* "other" when it holds no marker.
C9_FirstMatchInPriorityOrder ==
  pc = "classified" =>
    LET P == PresentRanks(text) IN
    category = (IF P = {} THEN "other"
                ELSE Priority[CHOOSE i \in P : \A j \in P : i <= j])

\* A text with the markers of four categories, the one of highest priority last
C9_Witness ==
  /\ pc = "classified"
  /\ PresentRanks(text) = {1, 2, 6, 7}
  /\ text = JoinDown({1, 4, 9, 10}, Len(PhraseList))
  /\ category = "dns"

\* The headings of the breakdown sections, the names of the count lines, and
\* what a report holds of them
SectionHeadings ==
  {"## top successful queries", "## frequent error causes",
   "## distribution by provider", "## distribution by mode"}
CountNames == {"total", "success", "empty", "failed"}
HeadingsIn(rep) ==
  {rep[i].s : i \in {j \in 1..Len(rep) : rep[j].kind = "text"}} \cap SectionHeadings
CountsIn(rep) == {rep[i].s : i \in {j \in 1..Len(rep) : rep[j].kind = "count"}}
ItemsIn(rep) == {i \in 1..Len(rep) : rep[i].kind = "item"}

\* C10: when no record was emitted, the export is the empty sequence and the
\* report is the fixed "no completed attempts" text, without count lines and
\* without breakdown sections; when a record was emitted, the report holds the
\* four counts and the four breakdown sections.
C10_EmptyReport ==
  pc = "done" =>
    /\ emitted = <<>> =>
         /\ export = <<>>
         /\ summary = <<Txt("# AI training summary"), Txt(""),
                        Txt("no completed scanner_finish attempts in the log")>>
         /\ CountsIn(summary) = {}
         /\ HeadingsIn(summary) = {}
         /\ ItemsIn(summary) = {}
    /\ emitted # <<>> =>
         /\ Len(export) = Len(emitted)
         /\ CountsIn(summary) = CountNames
         /\ HeadingsIn(summary) = SectionHeadings
         /\ \E i \in 1..Len(summary) :
              summary[i] = CountLine("total", Len(emitted))

\* The input is not empty, an attempt was started and never finished, and the
\* outputs were written with no record emitted
C10_Witness ==
  /\ pc = "done"
  /\ emitted = <<>>
  /\ DOMAIN attempts # {}
  /\ summary # <<>>

\* C11: running the pipeline a second time on the same input lines gives the
\* same export rows and the same report as the first run, and the second run
\* ends with the records and the live map the first run ended with: nothing
\* the first run left behind reaches the second.
C11_SecondRunSameOutput ==
  [][(pc = "done" /\ pc' = "done again")
       => /\ export' = export
          /\ summary' = summary
          /\ emitted' = emitted
          /\ attempts' = attempts]_vars

\* The second run is over; the first run had left an attempt live and had
\* emitted a record
C11_Witness ==
  /\ pc = "done again"
  /\ DOMAIN attempts # {}
  /\ emitted # <<>>
  /\ export # <<>>

\* What a report says: the number on the count line of a name, the items of a
\* breakdown section, and the sum of their counts
CountIn(rep, name) ==
  LET I == {i \in 1..Len(rep) : rep[i].kind = "count" /\ rep[i].s = name}
  IN IF I = {} THEN None ELSE rep[CHOOSE i \in I : TRUE].n
SectionItems(rep, section) ==
  SelectSeq(rep, LAMBDA x : x.kind = "item" /\ x.s = section)
RECURSIVE SumOfCounts(_)
SumOfCounts(items) ==
  IF items = <<>> THEN 0 ELSE Head(items).n + SumOfCounts(Tail(items))
Labelled(lab) == {i \in 1..Len(emitted) : emitted[i].label = lab}

\* C12: in the report of a non-empty record sequence the counts of success,
\* empty and failed records are the numbers of records of each label and add
\* up to the total, the number of records; the provider distribution and the
\* mode distribution each list every distinct value of the records once, with
\* the number of records that have it, and their counts add up to the total.
C12_CountsPartitionTotal ==
  (pc = "reported" /\ emitted # <<>>) =>
    LET total == Len(emitted)
        prov == SectionItems(summary, "providers")
        mods == SectionItems(summary, "modes")
    IN /\ CountIn(summary, "total") = total
       /\ CountIn(summary, "success") = Cardinality(Labelled("success"))
       /\ CountIn(summary, "empty") = Cardinality(Labelled("empty"))
       /\ CountIn(summary, "failed") = Cardinality(Labelled("failed"))
       /\ CountIn(summary, "success") + CountIn(summary, "empty")
            + CountIn(summary, "failed") = total
       /\ {prov[p].key : p \in 1..Len(prov)} = {emitted[i].provider : i \in 1..total}
       /\ \A p, r \in 1..Len(prov) : prov[p].key = prov[r].key => p = r
       /\ \A p \in 1..Len(prov) :
            prov[p].n = Cardinality({i \in 1..total : emitted[i].provider = prov[p].key})
       /\ SumOfCounts(prov) = total
       /\ {mods[p].key : p \in 1..Len(mods)} = {emitted[i].mode : i \in 1..total}
       /\ \A p, r \in 1..Len(mods) : mods[p].key = mods[r].key => p = r
       /\ \A p \in 1..Len(mods) :
            mods[p].n = Cardinality({i \in 1..total : emitted[i].mode = mods[p].key})
       /\ SumOfCounts(mods) = total

\* A report of records of all three labels, two providers and two modes
C12_Witness ==
  /\ pc = "reported"
  /\ Labelled("success") # {} /\ Labelled("empty") # {} /\ Labelled("failed") # {}
  /\ Len(SectionItems(summary, "providers")) = 2
  /\ Len(SectionItems(summary, "modes")) = 2
  /\ CountIn(summary, "total") > TopN

\* The records the top-queries section counts, the number of them with the
\* query q, and the place of the first of them in the record sequence
Eligible == {i \in 1..Len(emitted) : emitted[i].label = "success" /\ emitted[i].query # <<>>}
EligibleQueries == {emitted[i].query : i \in Eligible}
QueryCount(q) == Cardinality({i \in Eligible : emitted[i].query = q})
QueryFirst(q) ==
  CHOOSE i \in Eligible :
    emitted[i].query = q /\ \A j \in Eligible : emitted[j].query = q => i <= j

\* C19: the top-queries section of the report lists at most ten queries, each
\* once and with its number of occurrences, taken only from the records
\* labelled "success" whose query is not empty; the counts do not increase down
\* the list, queries of equal count stand in the order of their first
\* occurrence in the record sequence, and no query left out of the list has a
\* higher count than a listed one.
C19_TopQueries ==
  pc = "reported" =>
    LET top == SectionItems(summary, "queries") IN
    /\ Len(top) <= 10
    /\ Len(top) = Min(10, Cardinality(EligibleQueries))
    /\ \A p \in 1..Len(top) :
         /\ top[p].key \in EligibleQueries
         /\ top[p].n = QueryCount(top[p].key)
    /\ \A p, r \in 1..Len(top) : top[p].key = top[r].key => p = r
    /\ \A p, r \in 1..Len(top) :
         p < r =>
           /\ top[p].n >= top[r].n
           /\ top[p].n = top[r].n => QueryFirst(top[p].key) < QueryFirst(top[r].key)
    /\ \A q \in EligibleQueries \ {top[p].key : p \in 1..Len(top)} :
         \A p \in 1..Len(top) : QueryCount(q) <= top[p].n

\* Twelve different successful queries, the one first met last met twice: it
\* heads the list of ten, which leaves out two queries as frequent as its last
\* one; a failed record with a query is not counted
C19_Witness ==
  /\ pc = "reported"
  /\ Cardinality(EligibleQueries) = 12
  /\ LET top == SectionItems(summary, "queries") IN
       /\ Len(top) = 10
       /\ top[1].n = 2 /\ QueryFirst(top[1].key) = 12
       /\ top[10].n = 1
       /\ \E q \in EligibleQueries \ {top[p].key : p \in 1..10} : QueryCount(q) = 1
  /\ \E i \in 1..Len(emitted) : emitted[i].label = "failed" /\ emitted[i].query # <<>>

\* C20: a record, once emitted, is never changed: every step leaves the
\* records emitted so far as they are and in their places, and adds at most
\* one record after them; this holds also for the steps that consume a later
\* event of the record's attempt id, a start that reopens the id and the
\* events of the reopened attempt.
C20_EmittedOnlyGrows ==
  [][/\ Len(emitted') \in {Len(emitted), Len(emitted) + 1}
     /\ SubSeq(emitted', 1, Len(emitted)) = emitted]_vars

\* Attempt 1 was closed, reopened by a second start, and an event of the
\* reopened attempt was folded in; the record of the first attempt is the
\* record of its start and its finish
C20_Witness ==
  /\ Len(lines) = 4
  /\ lines[1] = StartLine(1)
  /\ lines[2] = FinishLine(1, <<"5">>)
  /\ lines[3] = StartLine(1)
  /\ lines[4] = FatalLine(1)
  /\ 1 \in DOMAIN attempts
  /\ attempts[1].statuses = <<"scanner_start", "scanner_fatal">>
  /\ Len(emitted) = 1
  /\ emitted[1].statuses = <<"scanner_start", "scanner_finish">>
  /\ emitted[1].found = 5

\* The counts recovered from the success-like events among the lines I
CountsAmong(I) ==
  {FoundCountOf[lines[i]] : i \in {e \in I : lines[e].status \in CountStatuses}}
\* The events carrying the live id a since its most recent start
LiveEventsOf(a) ==
  {i \in (LastStart(a, Len(lines)) + 1)..Len(lines) : Carries(lines[i], a)}

\* found of every record and of every live attempt is the largest count among
\* the success-like events of the attempt after its start, 0 without one
C13_FoundIsMax ==
  LET cl == Closings IN
  /\ \A k \in 1..Min(Len(emitted), Len(cl)) :
       emitted[k].found = MaxOf(CountsAmong(EventsOf(cl[k])))
  /\ \A a \in DOMAIN attempts :
       attempts[a].found = MaxOf(CountsAmong(LiveEventsOf(a)))

\* a step that is not a start of the id does not lower found of a live attempt
C13_FoundNotLowered ==
  \A a \in DOMAIN attempts \cap DOMAIN attempts' :
    (lines' # lines /\ ~IsStartOf(lines'[Len(lines')], a))
      => attempts'[a].found >= attempts[a].found

\* C13: found of every emitted record is the maximum result count recovered
\* from the success-like events (scanner_ok, scanner_step_ok, scanner_finish,
\* the closing finish included) carrying the id since its most recent start,
\* and 0 if there is none; the counts in the start event, in error-like events
\* and in events of any other status do not contribute; and while an attempt
\* stays live, not replaced by a new start, its found never decreases.
C13_FoundRunningMax ==
  []C13_FoundIsMax /\ [][C13_FoundNotLowered]_vars

\* An attempt whose start carries results=9, with a step_ok of 4, a progress
\* event of 8 and a closing finish of 2: found is 4
C13_Witness ==
  /\ lines = <<RichStartLine, StepOkLine, FieldsProgressLine, FinishLine(1, <<"2">>)>>
  /\ Len(emitted) = 1
  /\ emitted[1].found = 4

\* lines[i] is a start of an id that is live when it arrives
Reopens(i) ==
  /\ WellFormed(lines[i])
  /\ lines[i].status = "scanner_start"
  /\ AttemptIdOf[lines[i]] # None
  /\ OpenAfter(AttemptIdOf[lines[i]], i - 1)

\* The line l, arriving next, is a start of an id that is live
ReopenedBy(l) ==
  /\ WellFormed(l)
  /\ l.status = "scanner_start"
  /\ AttemptIdOf[l] # None
  /\ OpenAfter(AttemptIdOf[l], Len(lines))

\* The events carrying the id of the attempt closed at line j, from its most
\* recent start on
FromStartOf(j) ==
  SelectSeq(SubSeq(lines, StartOf(j), j), LAMBDA l : Carries(l, ClosedId(j)))

\* a record closed after a reopening start is the record of the events from
\* that start on, and of no earlier one
C14_RecordFromSecondStart ==
  LET cl == Closings IN
  \A k \in 1..Min(Len(emitted), Len(cl)) :
    Reopens(StartOf(cl[k])) =>
      /\ emitted[k] = parse_lines(FromStartOf(cl[k]))[1]
      /\ emitted[k].started_at = lines[StartOf(cl[k])].ts
      /\ emitted[k].found = MaxOf(CountsAmong(EventsOf(cl[k])))
      /\ (ErrorsOf(cl[k]) = {}) = (emitted[k].error = <<>>)
      /\ Len(emitted[k].statuses) = Cardinality(EventsOf(cl[k])) + 1

\* a step that consumes a reopening start emits nothing and leaves the id with
\* the state of a newly opened attempt
C14_ReopenStep ==
  (lines' # lines /\ ReopenedBy(lines'[Len(lines')])) =>
    LET l == lines'[Len(lines')]
        a == AttemptIdOf[l]
    IN /\ emitted' = emitted
       /\ a \in DOMAIN attempts /\ a \in DOMAIN attempts'
       /\ attempts'[a] = AttemptState(a, l.ts, l.status, l.msg)
       /\ attempts'[a].found = 0
       /\ attempts'[a].errors = <<>>
       /\ attempts'[a].statuses = <<"scanner_start">>
       /\ attempts'[a].started_at = l.ts

\* C14: a scanner_start for an id that is already live overwrites the open
\* attempt: its found, errors, statuses, captured fields and started_at are
\* discarded and no record is emitted for it; the record emitted at the next
\* finish of the id is the record of the events from the second start onward,
\* with no found and no error from before the reopening.
C14_ReopenOverwrites ==
  []C14_RecordFromSecondStart /\ [][C14_ReopenStep]_vars

\* An attempt with a positive count was reopened by a start
\* without fields and then closed: the record has the second start's time and
\* the defaults, no result and no error
C14_Witness ==
  /\ lines = <<RichStartLine, StepOkLine, BareStartLine, FinishLine(1, <<"0">>)>>
  /\ Len(emitted) = 1
  /\ emitted[1].started_at = 130
  /\ emitted[1].found = 0
  /\ emitted[1].label = "empty"
  /\ emitted[1].query = <<>>
  /\ emitted[1].provider = <<"A","L","L">>
  /\ emitted[1].statuses = <<"scanner_start", "scanner_finish">>

\* The message has a field of the key K
HasKey(msg, K) == \E i \in 1..Len(msg) : msg[i].k = K

\* The record or live state x has the query, provider, mode, preset and
\* started_at captured from the start event l, the defaults where l lacks them
CapturedFrom(x, l) ==
  /\ x.started_at = l.ts
  /\ x.query = normalize_query(extract_first(KQuery, QueryChar, l.msg, <<>>))
  /\ x.provider = extract_first(KProvider, UpperOrUnderscore, l.msg, <<"A","L","L">>)
  /\ x.mode = extract_first(KMode, UpperOrUnderscore, l.msg, <<"A","U","T","O">>)
  /\ x.preset = extract_first(KPreset, PresetChar, l.msg, <<"-">>)
  /\ ~HasKey(l.msg, KQuery) => x.query = <<>>
  /\ ~HasKey(l.msg, KProvider) => x.provider = <<"A","L","L">>
  /\ ~HasKey(l.msg, KMode) => x.mode = <<"A","U","T","O">>
  /\ ~HasKey(l.msg, KPreset) => x.preset = <<"-">>

\* C15: the query, provider, mode, preset and started_at of every emitted
\* record, and of every live attempt, are the values captured from the most
\* recent start event of its id, with the defaults ALL, AUTO, - and the empty
\* query where the start lacks them; no later event of the id changes them,
\* whatever query=, provider=, mode= or preset= it carries; and finished_at
\* is the timestamp of the closing finish.
C15_FieldsFromStart ==
  LET cl == Closings IN
  /\ \A k \in 1..Min(Len(emitted), Len(cl)) :
       /\ CapturedFrom(emitted[k], lines[StartOf(cl[k])])
       /\ emitted[k].finished_at = lines[cl[k]].ts
  /\ \A a \in DOMAIN attempts :
       LastStart(a, Len(lines)) > 0
         /\ CapturedFrom(attempts[a], lines[LastStart(a, Len(lines))])

\* Between a start with query=foo, provider=WEB, mode=DEEP, preset=p1 and its
\* finish came events with provider=ALL and with query=bar, mode=FAST,
\* preset=p2: the record has the start's values
C15_Witness ==
  /\ lines = <<RichStartLine, StepOkLine, FieldsProgressLine, FinishLine(1, <<"2">>)>>
  /\ Len(emitted) = 1
  /\ emitted[1].query = <<"f","o","o">>
  /\ emitted[1].provider = <<"W","E","B">>
  /\ emitted[1].mode = <<"D","E","E","P">>
  /\ emitted[1].preset = <<"p","1">>
  /\ emitted[1].started_at = 100
  /\ emitted[1].finished_at = 200

\* The status tokens of a sequence of lines
StatusesOf(ls) == [i \in 1..Len(ls) |-> ls[i].status]
\* How many times the token t stands in the sequence st
Occurrences(st, t) == Cardinality({i \in 1..Len(st) : st[i] = t})

\* C16: the statuses of every emitted record are the status tokens of all the
\* decoded events carrying its id from its most recent start through its
\* closing finish, in the order of arrival: the sequence begins with
\* scanner_start, ends with scanner_finish, holds each of the two once, and
\* holds the status of every event between them, success-like, error-like or
\* of neither family.
C16_StatusesAreTheEvents ==
  LET cl == Closings IN
  \A k \in 1..Min(Len(emitted), Len(cl)) :
    LET st == emitted[k].statuses IN
    /\ st = StatusesOf(FromStartOf(cl[k]))
    /\ Len(st) = Cardinality(EventsOf(cl[k])) + 1
    /\ st[1] = "scanner_start"
    /\ st[Len(st)] = "scanner_finish"
    /\ Occurrences(st, "scanner_start") = 1
    /\ Occurrences(st, "scanner_finish") = 1

\* A record whose attempt saw an error-like event and an event of neither
\* family between its start and its finish
C16_Witness ==
  /\ Len(emitted) = 1
  /\ emitted[1].statuses =
       <<"scanner_start", "scanner_error", "scanner_progress", "scanner_finish">>
  /\ lines[2] = CountedErrorLine
  /\ lines[3] = FieldsProgressLine

\* C17: for every emitted record, error_type is the empty string and error is
\* empty if and only if no error-like event was recorded for the attempt
\* between its start and its closing finish; otherwise error_type is the
\* classification of the last recorded error and error its text, whatever the
\* label: a record labelled "success" may carry an error_type, and every
\* record labelled "failed" carries one.
C17_ErrorTypeIffErrorRecorded ==
  LET cl == Closings IN
  \A k \in 1..Min(Len(emitted), Len(cl)) :
    LET r == emitted[k]
        errs == ErrorsOf(cl[k])
    IN /\ (r.error_type = "" /\ r.error = <<>>) <=> errs = {}
       /\ (r.error_type = "") <=> (r.error = <<>>)
       /\ errs # {} =>
            /\ r.error_type = classify_error(MsgText(lines[MaxOf(errs)].msg))
            /\ r.error = Take(MsgText(lines[MaxOf(errs)].msg), 1000)
       /\ r.label = "failed" => r.error_type # ""

\* A record labelled "success" with the error_type of the last of two errors
C17_Witness ==
  /\ Len(emitted) = 1
  /\ Len(lines) = 4
  /\ lines[2] = ErrorEvent(151, "scanner_error", THttp403)
  /\ lines[3] = ErrorEvent(153, "scanner_step_error", TSsl)
  /\ emitted[1].label = "success"
  /\ emitted[1].found = 5
  /\ emitted[1].error_type = "tls_ssl"
  /\ emitted[1].error # <<>>

\* C18: the records are emitted in the order in which their closing finishes
\* stand in the input, whatever the attempt ids, the order of the starts and
\* the timestamps: the k-th record is the record of the attempt closed by the
\* k-th closing finish, so a record whose closing finish precedes that of
\* another precedes it; and the export holds the rows of the records in the
\* same order.
C18_EmissionOrder ==
  LET cl == Closings IN
  /\ Len(emitted) = Len(cl)
  /\ \A k \in 1..Min(Len(emitted), Len(cl)) :
       /\ emitted[k].attempt = ClosedId(cl[k])
       /\ emitted[k].finished_at = lines[cl[k]].ts
       /\ emitted[k].started_at = lines[StartOf(cl[k])].ts
       /\ \A m \in 1..(k - 1) : cl[m] < cl[k]
  /\ pc = "done" =>
       /\ Len(export) = Len(emitted)
       /\ \A k \in 1..Min(Len(export), Len(cl)) :
            /\ export[k] = JsonDumps(emitted[k])
            /\ export[k][1] = <<"attempt", ClosedId(cl[k])>>
            /\ export[k][3] = <<"finished_at", lines[cl[k]].ts>>

\* Attempt 2 started after attempt 1 and was finished before it, by a finish
\* with the later timestamp: its row is the first of the export
C18_Witness ==
  /\ pc = "done"
  /\ lines = <<StartLine(1), StartLine(2), FinishAt(2, 250), FinishAt(1, 90)>>
  /\ Len(export) = 2
  /\ export[1][1] = <<"attempt", 2>>
  /\ export[1][3] = <<"finished_at", 250>>
  /\ export[2][1] = <<"attempt", 1>>
  /\ export[2][3] = <<"finished_at", 90>>

====
